---- MODULE Spec2Model ----
(***************************************************************************)
(* The video upload handler of src/api/videos.ts as a state machine.      *)
(* Every request is one run of handlerUploadVideo; the steps of a request  *)
(* are the synchronous stretches of the handler between two awaits (those  *)
(* of getVideoAspectRatio and processVideoForFastStart included, and the   *)
(* return of either to the await of its call in the handler), so           *)
(* concurrent requests interleave exactly at the awaits.                   *)
(***************************************************************************)
EXTENDS Integers, Sequences, FiniteSets, TLC

VARIABLES db, bucket, fs, req, dims, label, proc

\* db: the video records of the store; bucket: the stored objects by key;
\* fs: the files under /tmp by path; req: the state of each request;
\* dims, label: a probed <<width, height>> and its classification;
\* proc: one spawned tool, its two pipes and the handler waiting for it
vars == <<db, bucket, fs, req, dims, label, proc>>

-----------------------------------------------------------------------------
(* Bounds of the model *)

\* number of upload requests in flight over a run
MaxReq == 2

\* what a pipe holds before a write to it blocks
PipeCap == 2

\* the most a tool writes to one of its streams
MaxOutput == 3

\* the prober is classified on every width and height up to MaxDim, and on the
\* sample dimensions
MaxDim == 6

Reqs == 1..MaxReq

-----------------------------------------------------------------------------
(* The environment: users, stored records, uploads *)

Users == {"u1", "u2"}
BadToken == "bad"
Tokens == Users \cup {BadToken}

VideoIds == {"v1", "v2"}
\* "" is a request without the path parameter, "v9" an identifier of no record
RequestedIds == VideoIds \cup {"", "v9"}

OwnerOf(id) == IF id = "v1" THEN "u1" ELSE "u2"

NullURL == <<>>
NoRecord == [id |-> "", userID |-> "", videoURL |-> NullURL]

Distribution == "dist"

MAX_UPLOAD_SIZE == 2^30

\* what an upload holds: the list of its video streams, each a <<width, height>>
NoStreams == <<>>
Landscape1080 == << <<1920, 1080>> >>
Portrait1080 == << <<1080, 1920>> >>
StreamLists == {NoStreams, Landscape1080, Portrait1080}

NoFile == [present |-> FALSE, size |-> 0, type |-> "", streams |-> NoStreams]
UploadSizes == {2^30, 2^30 + 1}
UploadTypes == {"", "video/mp4", "video/webm"}
\* every size and declared type, and for the accepted ones every content
Uploads ==
    {NoFile}
    \cup { [present |-> TRUE, size |-> s, type |-> t, streams |-> Landscape1080] :
             s \in UploadSizes, t \in UploadTypes }
    \cup { [present |-> TRUE, size |-> 2^30, type |-> "video/mp4", streams |-> d] :
             d \in StreamLists }

-----------------------------------------------------------------------------
(* Collaborators, which are not part of videos.ts *)

\* keyed lookup of a record: the record, or nothing
getVideo(d, id) == IF id \in DOMAIN d THEN d[id] ELSE NoRecord

\* the record of that identifier is replaced by the one given
updateVideo(d, video) == [d EXCEPT ![video.id] = video]

\* the caller identity of a valid credential; "" stands for the throw on any other
validateJWT(token) == IF token \in Users THEN token ELSE ""

\* the extension of the media type
mediaTypeToExt(mediaType) == IF mediaType = "video/mp4" THEN ".mp4" ELSE ".bin"

-----------------------------------------------------------------------------
(* Pure parts of the handler *)

\* the ownership check left out
AuthorizeAnyCaller(d, videoId, token) ==
    IF videoId = "" THEN "BadRequest"
    ELSE IF validateJWT(token) = "" THEN "Unauthorized"
    ELSE IF getVideo(d, videoId) = NoRecord THEN "Error"
    ELSE "ok"

\* line 23: the record the handler works on
LoadVideo(d, videoId) == getVideo(d, videoId)

\* lines 14-30: the outcome of the checks that precede the first await
Authorize(d, videoId, token) ==
    IF videoId = "" THEN "BadRequest"
    ELSE IF validateJWT(token) = "" THEN "Unauthorized"
    ELSE IF LoadVideo(d, videoId) = NoRecord THEN "Error"
    ELSE IF validateJWT(token) # LoadVideo(d, videoId).userID THEN "Forbidden"
    ELSE "ok"

\* the ceiling itself refused
SizeAtLeastLimit(size) == size >= MAX_UPLOAD_SIZE

\* line 38
SizeTooLarge(size) == size > MAX_UPLOAD_SIZE

\* lines 33-49
ValidateUpload(file) ==
    IF ~file.present THEN "BadRequest"
    ELSE IF SizeTooLarge(file.size) THEN "BadRequest"
    ELSE IF file.type = "" THEN "BadRequest"
    ELSE IF file.type # "video/mp4" THEN "BadRequest"
    ELSE "ok"

\* line 52: the 32 random bytes drawn by request r. No two draws collide (2^-256):
\* the draws of different requests are different values.
randomBytes(r) == r

\* line 52: the random hexadecimal name with the extension appended
Filename(rnd, ext) == <<rnd, ext>>

\* line 54
TempPath(filename) == <<"/tmp/">> \o filename

\* one output path for every input
FixedProcessedPath(inputFilePath) == <<"/tmp/", 0, ".mp4", ".processed">>

\* line 115
ProcessedPath(inputFilePath) == Append(inputFilePath, ".processed")

\* the object named by its classification and extension alone
ObjectKeyWithoutName(aspectRatio, filename) ==
    <<aspectRatio, "/", <<0, filename[2]>> >>

\* line 59
ObjectKey(aspectRatio, filename) == <<aspectRatio, "/", filename>>

\* the URL composed without the classification of the stored object
VideoURLWithoutClass(aspectRatio, filename) ==
    <<"https://", Distribution, "/", "other", "/", filename>>

\* line 64
VideoURL(aspectRatio, filename) ==
    <<"https://", Distribution, "/", aspectRatio, "/", filename>>

\* Math.round in place of Math.floor
RoundDiv(w, h) == (2 * w + h) \div (2 * h)

\* lines 102-107: Math.floor(w / h) of two non-negative numbers, h > 0
FloorDiv(w, h) == w \div h

\* the orientation compared without truncation
ClassifyByOrientation(w, h) ==
    IF w > h THEN "landscape" ELSE IF w < h THEN "portrait" ELSE "other"

\* lines 102-111; a zero height divides to Infinity or NaN, equal to neither ratio
Classify(w, h) ==
    LET landscapeRatio == FloorDiv(16, 9)
        portraitRatio == FloorDiv(9, 16)
    IN  IF h = 0 THEN "other"
        ELSE IF FloorDiv(w, h) = landscapeRatio THEN "landscape"
        ELSE IF FloorDiv(w, h) = portraitRatio THEN "portrait"
        ELSE "other"

ExitCodes == {0, 1}
StderrTexts == {"", "warning"}

\* only a negative exit status refused
ExitNegativeOnly(exitCode) == exitCode < 0

\* line 89
ExitThrows(exitCode) == exitCode # 0

\* the error stream not looked at
StderrIgnored(stderrText) == FALSE

\* line 96: any text on the error stream is truthy
StderrThrows(stderrText) == stderrText # ""

\* line 105: streams[0] of an empty stream list is undefined, reading its width throws
ParseThrows(streams) == Len(streams) = 0

\* lines 100-111: the first stream of the parsed output is classified
getVideoAspectRatio(streams) == Classify(streams[1][1], streams[1][2])

\* the exit status of ffmpeg not looked at
RemuxExitIgnored(exitCode) == FALSE

\* line 134
RemuxThrows(exitCode) == exitCode # 0

\* line 55: the awaited write rejects
WriteThrows(written) == ~written

\* the upload not awaited: its rejection never reaches the handler
UploadNotAwaited(stored) == FALSE

\* line 60: the awaited upload rejects
UploadThrows(stored) == ~stored

\* a fresh record persisted with the URL alone
SetVideoURLOnFreshRecord(video, videoURL) ==
    [id |-> video.id, userID |-> "", videoURL |-> videoURL]

\* line 65
SetVideoURL(video, videoURL) == [video EXCEPT !.videoURL = videoURL]

\* line 66
UpdateThrows(persisted) == ~persisted

\* lines 67-68: the awaited deletion rejects
DeleteThrows(removed) == ~removed

-----------------------------------------------------------------------------
(* The filesystem and the bucket *)

Exists(path) == path \in DOMAIN fs

WriteFile(f, path, content) ==
    [p \in DOMAIN f \cup {path} |-> IF p = path THEN content ELSE f[p]]

DeleteFile(f, path) == [p \in DOMAIN f \ {path} |-> f[p]]

PutObject(b, key, object) ==
    [k \in DOMAIN b \cup {key} |-> IF k = key THEN object ELSE b[k]]

-----------------------------------------------------------------------------
(* Requests *)

NoName == <<0, "">>

\* no tool spawned
NoProc ==
    [tool |-> "", exitCode |-> 0, out |-> 0, err |-> 0, stdout |-> 0, stderr |-> 0,
     stdoutRead |-> 0, stderrRead |-> 0, running |-> FALSE, handler |-> "ended"]

\* pc is the await the handler is suspended at; log is the history of the request:
\* what each awaited operation did ("staged", "probeExit1", ...) and which
\* operation the handler invoked next ("probe", "remux", "upload", ...); seen is
\* the set of the events of log
IdleRequest ==
    [pc |-> "idle", videoId |-> "", userID |-> "", video |-> NoRecord,
     file |-> NoFile, filename |-> NoName, stdoutText |-> NoStreams,
     returned |-> "", aspectRatio |-> "", status |-> "", failedAt |-> "", log |-> <<>>,
     seen |-> {}]

InitialDb ==
    [id \in VideoIds |-> [id |-> id, userID |-> OwnerOf(id), videoURL |-> NullURL]]

Init ==
    /\ db = InitialDb
    /\ bucket = <<>>
    /\ fs = <<>>
    /\ req = [r \in Reqs |-> IdleRequest]
    /\ dims = <<0, 0>>
    /\ label = ""
    /\ proc = NoProc

Range(events) == {events[i] : i \in DOMAIN events}

\* the handler throws: the request ends with an error response
Fail(r, status, at, events) ==
    [req[r] EXCEPT !.pc = "done", !.status = status, !.failedAt = at,
                   !.log = @ \o events, !.seen = @ \cup Range(events)]

\* getVideoAspectRatio or processVideoForFastStart throws: the promise of the
\* call is rejected, and the await of the call in the handler has yet to throw
Throw(r, pc, at, events) ==
    [req[r] EXCEPT !.pc = pc, !.failedAt = at,
                   !.log = @ \o events, !.seen = @ \cup Range(events)]

\* the handler goes on to its next await
Go(r, pc, events) ==
    [req[r] EXCEPT !.pc = pc, !.log = @ \o events, !.seen = @ \cup Range(events)]

\* lines 13-32: the checks before the first await, then the form is awaited.
\* Requests are numbered in their order of arrival.
Start(r) ==
    /\ req[r].pc = "idle"
    /\ IF r = 1 THEN TRUE ELSE req[r - 1].pc # "idle"
    /\ \E videoId \in RequestedIds, token \in Tokens :
          LET res == Authorize(db, videoId, token)
              \* line 21 is reached only with a path parameter
              got == [req[r] EXCEPT !.videoId = videoId,
                         !.userID = IF videoId = "" THEN "" ELSE validateJWT(token)]
          IN  req' = [req EXCEPT ![r] =
                  IF res = "ok"
                  THEN [got EXCEPT !.pc = "formData",
                                   !.video = LoadVideo(db, videoId),
                                   !.log = <<"authorized">>,
                                   !.seen = {"authorized"}]
                  ELSE [got EXCEPT !.pc = "done", !.status = res,
                                   !.failedAt = "authorize"]]
    /\ UNCHANGED <<db, bucket, fs, dims, label, proc>>

\* line 32: the awaited req.formData() rejects on a body that is no form (not
\* multipart or urlencoded, or malformed)
FormThrows(parsed) == ~parsed

\* lines 32-55: req.formData() settles. A body that is no form rejects it and
\* the handler throws the TypeError; otherwise the upload of the form is
\* validated, named and its write begun.
FormData(r) ==
    /\ req[r].pc = "formData"
    /\ \E parsed \in BOOLEAN : \E file \in (IF parsed THEN Uploads ELSE {NoFile}) :
          LET res == ValidateUpload(file)
              filename == Filename(randomBytes(r), mediaTypeToExt(file.type))
          IN  req' = [req EXCEPT ![r] =
                  IF FormThrows(parsed)
                  THEN Fail(r, "Error", "formData", <<"formRejected">>)
                  ELSE IF res # "ok"
                  THEN [Fail(r, res, "validate", <<>>) EXCEPT !.file = file]
                  ELSE [Go(r, "write", <<"stage">>) EXCEPT
                           !.file = file, !.filename = filename]]
    /\ UNCHANGED <<db, bucket, fs, dims, label, proc>>

\* lines 55-56 and 73-87: Bun.write settles; on success ffprobe is spawned
WriteDone(r) ==
    /\ req[r].pc = "write"
    /\ \E written \in BOOLEAN :
          /\ fs' = IF written
                   THEN WriteFile(fs, TempPath(req[r].filename),
                            [streams |-> req[r].file.streams, faststart |-> FALSE,
                             by |-> r])
                   ELSE fs
          /\ req' = [req EXCEPT ![r] =
                  IF WriteThrows(written)
                  THEN Fail(r, "Error", "stage", <<"stageFailed">>)
                  ELSE Go(r, "probe",
                          <<IF written THEN "staged" ELSE "stageFailed", "probe">>)]
    /\ UNCHANGED <<db, bucket, dims, label, proc>>

\* what ffprobe did, given its exit status, error stream and the streams it printed
ProbeOutcome(exitCode, stderrText, streams) ==
    IF exitCode # 0 THEN "probeExit1"
    ELSE IF stderrText # "" THEN "probeStderr"
    ELSE IF Len(streams) = 0 THEN "probeNoStream"
    ELSE "probed"

\* lines 89-93: proc.exited of ffprobe settles; on a zero exit status the reading
\* of its output stream is begun, otherwise getVideoAspectRatio throws. ffprobe
\* fails on a path that names no file.
ProbeExit(r) ==
    /\ req[r].pc = "probe"
    /\ \E exit \in ExitCodes :
          LET path == TempPath(req[r].filename)
              exitCode == IF Exists(path) THEN exit ELSE 1
              did == IF exitCode # 0 THEN <<ProbeOutcome(exitCode, "", NoStreams)>>
                     ELSE <<>>
          IN  req' = [req EXCEPT ![r] =
                  IF ExitThrows(exitCode)
                  THEN Throw(r, "probeThrown", "probeExit", did)
                  ELSE Go(r, "probeStdout", did)]
    /\ UNCHANGED <<db, bucket, fs, dims, label, proc>>

\* lines 93-94: the text of the output stream has been read to its end: the
\* streams of the staged file, as ffprobe printed them; the reading of the error
\* stream is begun
ProbeStdout(r) ==
    /\ req[r].pc = "probeStdout"
    /\ LET path == TempPath(req[r].filename)
           streams == IF Exists(path) THEN fs[path].streams ELSE NoStreams
       IN  req' = [req EXCEPT ![r] =
               [Go(r, "probeStderr", <<>>) EXCEPT !.stdoutText = streams]]
    /\ UNCHANGED <<db, bucket, fs, dims, label, proc>>

\* lines 94-111: the text of the error stream has been read to its end; the
\* output is parsed and classified, and getVideoAspectRatio returns the
\* classification to the await of line 56, which has yet to resume the handler,
\* or throws on a text on the error stream or an output without a stream
ProbeStderr(r) ==
    /\ req[r].pc = "probeStderr"
    /\ \E stderrText \in StderrTexts :
          LET streams == req[r].stdoutText
              did == ProbeOutcome(0, stderrText, streams)
          IN  req' = [req EXCEPT ![r] =
                  IF StderrThrows(stderrText)
                  THEN Throw(r, "probeThrown", "probeStderr", <<did>>)
                  ELSE IF ParseThrows(streams)
                       THEN Throw(r, "probeThrown", "probeParse", <<did>>)
                  ELSE [Go(r, "probeReturn", <<did>>) EXCEPT
                           !.returned = getVideoAspectRatio(streams)]]
    /\ UNCHANGED <<db, bucket, fs, dims, label, proc>>

\* line 56: the await of getVideoAspectRatio throws what the call threw, and
\* the request ends with the error
ProbeRejects(r) ==
    /\ req[r].pc = "probeThrown"
    /\ req' = [req EXCEPT ![r] = Fail(r, "Error", req[r].failedAt, <<>>)]
    /\ UNCHANGED <<db, bucket, fs, dims, label, proc>>

\* lines 56-57 and 114-134: the handler resumes with the classification
\* returned; ffmpeg is spawned and its exit awaited
ProbeReturn(r) ==
    /\ req[r].pc = "probeReturn"
    /\ req' = [req EXCEPT ![r] =
            [Go(r, "remux", <<"remux">>) EXCEPT !.aspectRatio = req[r].returned]]
    /\ UNCHANGED <<db, bucket, fs, dims, label, proc>>

\* lines 134-138: proc.exited of ffmpeg settles; on a zero exit status
\* processVideoForFastStart returns the output path to the await of line 57,
\* which has yet to resume the handler; otherwise the reading of the error
\* stream for the message of the error is begun. ffmpeg fails on a path that
\* names no file; a failing ffmpeg is taken to fail on its input, before it has
\* written an output file.
RemuxExit(r) ==
    /\ req[r].pc = "remux"
    /\ \E exit \in ExitCodes :
          LET input == TempPath(req[r].filename)
              output == ProcessedPath(input)
              exitCode == IF Exists(input) THEN exit ELSE 1
          IN  /\ fs' = IF exitCode = 0
                       THEN WriteFile(fs, output,
                                [fs[input] EXCEPT !.faststart = TRUE, !.by = r])
                       ELSE fs
              /\ req' = [req EXCEPT ![r] =
                      IF RemuxThrows(exitCode)
                      THEN Go(r, "remuxStderr", <<"remuxExit1">>)
                      ELSE Go(r, "remuxReturn",
                              <<IF exitCode = 0 THEN "remuxed" ELSE "remuxExit1">>)]
    /\ UNCHANGED <<db, bucket, dims, label, proc>>

\* lines 57-62: the handler resumes with the output path returned; the key of
\* the object is built and the storage upload begun
RemuxReturn(r) ==
    /\ req[r].pc = "remuxReturn"
    /\ req' = [req EXCEPT ![r] = Go(r, "upload", <<"upload">>)]
    /\ UNCHANGED <<db, bucket, fs, dims, label, proc>>

\* line 135: the text of the error stream of the failed ffmpeg has been read to
\* its end, and processVideoForFastStart throws the error that quotes it
RemuxStderr(r) ==
    /\ req[r].pc = "remuxStderr"
    /\ req' = [req EXCEPT ![r] = Throw(r, "remuxThrown", "remux", <<>>)]
    /\ UNCHANGED <<db, bucket, fs, dims, label, proc>>

\* line 57: the await of processVideoForFastStart throws what the call threw,
\* and the request ends with the error
RemuxRejects(r) ==
    /\ req[r].pc = "remuxThrown"
    /\ req' = [req EXCEPT ![r] = Fail(r, "Error", req[r].failedAt, <<>>)]
    /\ UNCHANGED <<db, bucket, fs, dims, label, proc>>

\* lines 60-67: the storage upload settles; on success the URL is composed, the
\* record persisted and the deletion of the staged file begun. The upload
\* rejects when the file it reads does not exist.
S3Write(r) ==
    /\ req[r].pc = "upload"
    /\ \E accepted \in BOOLEAN : \E persisted \in (IF accepted THEN BOOLEAN ELSE {TRUE}) :
          LET source == ProcessedPath(TempPath(req[r].filename))
              stored == accepted /\ Exists(source)
              uploaded == IF stored THEN "uploaded" ELSE "uploadRejected"
              key == ObjectKey(req[r].aspectRatio, req[r].filename)
              video == SetVideoURL(req[r].video,
                                   VideoURL(req[r].aspectRatio, req[r].filename))
          IN  /\ bucket' = IF stored
                           THEN PutObject(bucket, key,
                                    [type |-> req[r].file.type, body |-> fs[source]])
                           ELSE bucket
              /\ IF UploadThrows(stored)
                 THEN /\ req' = [req EXCEPT ![r] =
                               Fail(r, "Error", "upload", <<uploaded>>)]
                      /\ UNCHANGED db
                 ELSE IF UpdateThrows(persisted)
                 THEN /\ req' = [req EXCEPT ![r] =
                               Fail(r, "Error", "update", <<uploaded, "updateFailed">>)]
                      /\ UNCHANGED db
                 ELSE /\ req' = [req EXCEPT ![r] =
                               [Go(r, "delete1", <<uploaded, "updated", "delete1">>)
                                   EXCEPT !.video = video]]
                      /\ db' = updateVideo(db, video)
    /\ UNCHANGED <<fs, dims, label, proc>>

\* lines 67-68: the deletion of the staged file settles, that of the remuxed file
\* begins. A deletion rejects when the path names no file.
Delete1(r) ==
    /\ req[r].pc = "delete1"
    /\ \E unlinked \in BOOLEAN :
          LET path == TempPath(req[r].filename)
              removed == unlinked /\ Exists(path)
              did == IF removed THEN "deleted1" ELSE "delete1Failed"
          IN  /\ fs' = IF removed THEN DeleteFile(fs, path) ELSE fs
              /\ req' = [req EXCEPT ![r] =
                      IF DeleteThrows(removed)
                      THEN Fail(r, "Error", "delete1", <<did>>)
                      ELSE Go(r, "delete2", <<did, "delete2">>)]
    /\ UNCHANGED <<db, bucket, dims, label, proc>>

\* lines 68-69: the deletion of the remuxed file settles, the handler responds
Delete2(r) ==
    /\ req[r].pc = "delete2"
    /\ \E unlinked \in BOOLEAN :
          LET path == ProcessedPath(TempPath(req[r].filename))
              removed == unlinked /\ Exists(path)
              did == IF removed THEN "deleted2" ELSE "delete2Failed"
          IN  /\ fs' = IF removed THEN DeleteFile(fs, path) ELSE fs
              /\ req' = [req EXCEPT ![r] =
                      IF DeleteThrows(removed)
                      THEN Fail(r, "Error", "delete2", <<did>>)
                      ELSE [Go(r, "done", <<did, "respond200">>) EXCEPT
                               !.status = "200"]]
    /\ UNCHANGED <<db, bucket, dims, label, proc>>

Next ==
    \E r \in Reqs :
        \/ Start(r)
        \/ FormData(r)
        \/ WriteDone(r)
        \/ ProbeExit(r)
        \/ ProbeStdout(r)
        \/ ProbeStderr(r)
        \/ ProbeRejects(r)
        \/ ProbeReturn(r)
        \/ RemuxExit(r)
        \/ RemuxReturn(r)
        \/ RemuxStderr(r)
        \/ RemuxRejects(r)
        \/ S3Write(r)
        \/ Delete1(r)
        \/ Delete2(r)

Spec == Init /\ [][Next]_vars

-----------------------------------------------------------------------------
(* The classification of getVideoAspectRatio on its own: the probed width and *)
(* height are drawn from a bounded set and classified.                        *)

SampleDims == {1000, 1080, 1920}
Dimensions == (0..MaxDim) \cup SampleDims

InitClassify ==
    /\ db = InitialDb
    /\ bucket = <<>>
    /\ fs = <<>>
    /\ req = [r \in Reqs |-> IdleRequest]
    /\ dims \in Dimensions \X Dimensions
    /\ label = ""
    /\ proc = NoProc

ClassifyStep ==
    /\ label = ""
    /\ label' = getVideoAspectRatio(<<dims>>)
    /\ UNCHANGED <<db, bucket, fs, req, dims, proc>>

NextClassify == ClassifyStep

SpecClassify == InitClassify /\ [][NextClassify]_vars

-----------------------------------------------------------------------------------------------------------------------------------------------------
(* One call of an external tool, as getVideoAspectRatio and                   *)
(* processVideoForFastStart make it: the tool is spawned with its output and  *)
(* error streams piped, the handler awaits its exit and asks for the text of  *)
(* the streams only afterwards. A pipe holds PipeCap units and a write to a   *)
(* full pipe blocks; the tool exits once it has written all its output. The   *)
(* runtime reads a piped stream into memory from the spawn on, unless the     *)
(* spawn options ask for lazy reading, in which case it reads a stream only   *)
(* once the handler has asked for it.                                         *)

Tools == {"ffprobe", "ffmpeg"}

\* lines 84-87 and 129-132: the options of both spawns; lazy is not passed
SpawnOptions == [stdout |-> "pipe", stderr |-> "pipe", lazy |-> FALSE]

\* the streams read only once the handler asks for them, as under lazy: true
ReadsOnAccess(options) == FALSE

\* lines 84-87 and 129-132: a piped stream is read by the runtime from the spawn on
ReadsFromSpawn(options) ==
    options.stdout = "pipe" /\ options.stderr = "pipe" /\ ~options.lazy

\* lines 73-89 and 116-134: the tool is spawned and its exit awaited
InitPipes ==
    /\ db = InitialDb
    /\ bucket = <<>>
    /\ fs = <<>>
    /\ req = [r \in Reqs |-> IdleRequest]
    /\ dims = <<0, 0>>
    /\ label = ""
    /\ \E tool \in Tools, exitCode \in ExitCodes, out, err \in 0..MaxOutput :
          proc = [tool |-> tool, exitCode |-> exitCode, out |-> out, err |-> err,
                  stdout |-> 0, stderr |-> 0, stdoutRead |-> 0, stderrRead |-> 0,
                  running |-> TRUE, handler |-> "awaitExit"]

\* lines 89-93 and 134-138: where the handler goes once the awaited exit status is there
AfterExit(tool, exitCode) ==
    IF tool = "ffprobe"
    THEN IF exitCode # 0 THEN "ended" ELSE "readStdout"
    ELSE IF exitCode # 0 THEN "readStderr" ELSE "ended"

\* the tool writes a unit to its output stream, if the pipe has room
ToolWritesStdout ==
    /\ proc.running /\ proc.out > 0 /\ proc.stdout < PipeCap
    /\ proc' = [proc EXCEPT !.out = @ - 1, !.stdout = @ + 1]
    /\ UNCHANGED <<db, bucket, fs, req, dims, label>>

\* the tool writes a unit to its error stream, if the pipe has room
ToolWritesStderr ==
    /\ proc.running /\ proc.err > 0 /\ proc.stderr < PipeCap
    /\ proc' = [proc EXCEPT !.err = @ - 1, !.stderr = @ + 1]
    /\ UNCHANGED <<db, bucket, fs, req, dims, label>>

\* the tool has written everything and exits
ToolExits ==
    /\ proc.running /\ proc.out = 0 /\ proc.err = 0
    /\ proc' = [proc EXCEPT !.running = FALSE]
    /\ UNCHANGED <<db, bucket, fs, req, dims, label>>

\* lines 85 and 130: the runtime reads what is in the output pipe into memory,
\* from the spawn on or once the handler has asked for the stream
RuntimeReadsStdout ==
    /\ proc.stdout > 0
    /\ ReadsFromSpawn(SpawnOptions) \/ proc.handler = "readStdout"
    /\ proc' = [proc EXCEPT !.stdoutRead = @ + proc.stdout, !.stdout = 0]
    /\ UNCHANGED <<db, bucket, fs, req, dims, label>>

\* lines 86 and 131: the runtime reads what is in the error pipe into memory,
\* from the spawn on or once the handler has asked for the stream
RuntimeReadsStderr ==
    /\ proc.stderr > 0
    /\ ReadsFromSpawn(SpawnOptions) \/ proc.handler = "readStderr"
    /\ proc' = [proc EXCEPT !.stderrRead = @ + proc.stderr, !.stderr = 0]
    /\ UNCHANGED <<db, bucket, fs, req, dims, label>>

\* lines 89 and 134: await proc.exited settles
AwaitExited ==
    /\ proc.handler = "awaitExit" /\ ~proc.running
    /\ proc' = [proc EXCEPT !.handler = AfterExit(proc.tool, proc.exitCode)]
    /\ UNCHANGED <<db, bucket, fs, req, dims, label>>

\* line 93: the text of the output stream settles, once the stream is at its end
ReadStdout ==
    /\ proc.handler = "readStdout"
    /\ ~proc.running /\ proc.stdout = 0
    /\ proc' = [proc EXCEPT !.handler = "readStderr"]
    /\ UNCHANGED <<db, bucket, fs, req, dims, label>>

\* lines 94 and 135: the text of the error stream settles, once the stream is at
\* its end
ReadStderr ==
    /\ proc.handler = "readStderr"
    /\ ~proc.running /\ proc.stderr = 0
    /\ proc' = [proc EXCEPT !.handler = "ended"]
    /\ UNCHANGED <<db, bucket, fs, req, dims, label>>

NextPipes ==
    \/ ToolWritesStdout
    \/ ToolWritesStderr
    \/ ToolExits
    \/ RuntimeReadsStdout
    \/ RuntimeReadsStderr
    \/ AwaitExited
    \/ ReadStdout
    \/ ReadStderr

\* the tool, the runtime and the handler each take the step they can take
SpecPipes == InitPipes /\ [][NextPipes]_vars /\ WF_vars(NextPipes)

-----------------------------------------------------------------------------
(* What a state shows of a request *)

Has(r, event) == event \in req[r].seen

\* one of the events is in the history of request r
HasAny(r, events) == req[r].seen \cap events # {}

Count(r, event) ==
    LET log == req[r].log
    IN  Cardinality({i \in DOMAIN log : log[i] = event})

Named(r) == req[r].filename # NoName

StagedPath(r) == <<"/tmp/", randomBytes(r), ".mp4">>
RemuxedPath(r) == <<"/tmp/", randomBytes(r), ".mp4", ".processed">>

\* a file of the name drawn by request r, or written by it, is on disk
FilesOf(r) ==
    {p \in DOMAIN fs : p[2] = randomBytes(r) \/ fs[p].by = r}

\* an object of the name drawn by request r, or read from a file r wrote, is stored
ObjectsOf(r) ==
    {k \in DOMAIN bucket : k[3][1] = randomBytes(r) \/ bucket[k].body.by = r}

\* a record holds a URL of the name drawn by request r
RecordsOf(r) ==
    {v \in DOMAIN db : db[v].videoURL # NullURL /\ db[v].videoURL[6][1] = randomBytes(r)}

NoEffects(r) == FilesOf(r) = {} /\ ObjectsOf(r) = {} /\ RecordsOf(r) = {}

ProbeFailed(r) == HasAny(r, {"probeExit1", "probeStderr", "probeNoStream"})

RanPipeline(r) ==
    Has(r, "staged") /\ Has(r, "probed") /\ Has(r, "remuxed") /\ Has(r, "uploaded")

FailedBeforeUpdate(r) ==
    HasAny(r, {"stageFailed", "probeExit1", "probeStderr", "probeNoStream",
               "remuxExit1", "uploadRejected"})

-----------------------------------------------------------------------------
(* Claims *)

\* C1: a record's URL is non-null only if a request on that record staged,
\* probed, remuxed and uploaded successfully and then wrote exactly the URL of
\* the object it stored; a request in which staging, probing, remuxing or the
\* upload failed has persisted no URL, so without a successful run the URL of a
\* record stays null.
C1_UrlOnlyAfterPipeline ==
    /\ \A v \in VideoIds :
          db[v].videoURL # NullURL =>
             \E r \in Reqs :
                /\ req[r].videoId = v
                /\ RanPipeline(r)
                /\ Has(r, "updated")
                /\ db[v].videoURL = <<"https://", Distribution, "/",
                                      req[r].aspectRatio, "/", req[r].filename>>
                /\ <<req[r].aspectRatio, "/", req[r].filename>> \in DOMAIN bucket
                /\ bucket[<<req[r].aspectRatio, "/", req[r].filename>>].body.faststart
    /\ \A r \in Reqs :
          FailedBeforeUpdate(r) => ~Has(r, "updated") /\ RecordsOf(r) = {}
    /\ \A v \in VideoIds :
          \/ db[v].videoURL = NullURL
          \/ \E r \in Reqs : req[r].videoId = v /\ RanPipeline(r)

\* C1 witness: one request has written its URL on a record while another, whose
\* upload was rejected, left its record with a null URL
C1_Witness ==
    \E r1, r2 \in Reqs :
       /\ Has(r1, "updated") /\ db[req[r1].videoId].videoURL # NullURL
       /\ Has(r2, "uploadRejected") /\ db[req[r2].videoId].videoURL = NullURL

\* C2: when a request that staged its upload has ended after a failure of the
\* prober, the remuxer or the storage upload, neither its staged file nor its
\* remuxed file is on disk.
C2_TempFilesDeletedOnFailure ==
    \A r \in Reqs :
       ( /\ req[r].pc = "done"
         /\ Has(r, "staged")
         /\ (ProbeFailed(r) \/ Has(r, "remuxExit1") \/ Has(r, "uploadRejected")) )
       => ~Exists(StagedPath(r)) /\ ~Exists(RemuxedPath(r))

\* C3: when an owner's request with a valid video/mp4 upload has ended, and both
\* tools exited 0 with an empty error stream, the upload was stored and the
\* record updated, then the object is stored under <classification>/<filename>,
\* the record of the response holds https://<host>/<classification>/<filename>
\* of the same classification and filename, the response is 200 and neither
\* the staged nor the remuxed file is on disk.
C3_EndToEnd ==
    \A r \in Reqs :
       (req[r].pc = "done" /\ RanPipeline(r) /\ Has(r, "updated")) =>
          /\ <<req[r].aspectRatio, "/", req[r].filename>> \in DOMAIN bucket
          /\ req[r].video.videoURL = <<"https://", Distribution, "/",
                                       req[r].aspectRatio, "/", req[r].filename>>
          /\ req[r].status = "200"
          /\ ~Exists(StagedPath(r)) /\ ~Exists(RemuxedPath(r))

\* the caller of request r is authenticated and addresses a record of another owner
NotOwner(r) ==
    /\ req[r].userID \in Users
    /\ req[r].videoId \in VideoIds
    /\ req[r].userID # db[req[r].videoId].userID

\* the caller of request r is authenticated and addresses no record
NoSuchVideo(r) ==
    /\ req[r].userID \in Users
    /\ req[r].videoId # ""
    /\ req[r].videoId \notin VideoIds

\* C4: a request of an authenticated caller who is not the owner of the addressed
\* record has ended with Forbidden, and a request for an identifier of no record
\* has ended with the generic error; either has staged nothing, invoked neither
\* tool, stored no object and updated no record.
C4_AuthorizationPrecedesEffects ==
    \A r \in Reqs :
       /\ NotOwner(r) =>
             /\ req[r].pc = "done" /\ req[r].status = "Forbidden"
             /\ req[r].log = <<>> /\ ~Named(r) /\ NoEffects(r)
       /\ NoSuchVideo(r) =>
             /\ req[r].pc = "done" /\ req[r].status = "Error"
             /\ req[r].log = <<>> /\ ~Named(r) /\ NoEffects(r)

\* C4 witness: a non-owner has been refused and an unknown identifier rejected
C4_Witness ==
    \E r1, r2 \in Reqs :
       /\ NotOwner(r1) /\ req[r1].status = "Forbidden"
       /\ NoSuchVideo(r2) /\ req[r2].status = "Error"

\* the upload is one the intake must refuse
Refused(file) ==
    \/ ~file.present
    \/ file.size > 2^30
    \/ file.type = ""
    \/ file.type # "video/mp4"

\* req.formData() of request r has rejected: its body was no form
FormRejected(r) == Has(r, "formRejected")

\* the form of request r has arrived
FormRead(r) == Has(r, "authorized") /\ req[r].pc # "formData" /\ ~FormRejected(r)

\* C5: an owner's request whose form holds no upload, or an upload larger than
\* 2^30 bytes, without a content type or of a type other than video/mp4, has
\* ended with BadRequest having staged nothing, invoked no tool, stored no object
\* and updated no record; an upload of exactly 2^30 bytes of type video/mp4 is
\* not refused. A request whose body is no form at all has no form to look an
\* upload up in: it has ended with the generic error, and like the refused ones
\* it has staged nothing, invoked no tool, stored no object and updated no record.
C5_IntakeValidation ==
    \A r \in Reqs :
     /\ FormRejected(r) =>
          /\ req[r].pc = "done" /\ req[r].status = "Error"
          /\ req[r].log = <<"authorized", "formRejected">>
          /\ ~Named(r) /\ NoEffects(r)
     /\ FormRead(r) =>
          /\ Refused(req[r].file) =>
                /\ req[r].pc = "done" /\ req[r].status = "BadRequest"
                /\ req[r].log = <<"authorized">> /\ ~Named(r) /\ NoEffects(r)
          /\ ( /\ req[r].file.present
               /\ req[r].file.size = 2^30
               /\ req[r].file.type = "video/mp4" ) =>
                req[r].failedAt # "validate" /\ Has(r, "stage") /\ Named(r)

\* C5 witness: an upload of 2^30 + 1 bytes has been refused and one of exactly
\* 2^30 bytes has been staged
C5_Witness ==
    \E r1, r2 \in Reqs :
       /\ FormRead(r1) /\ req[r1].file.present /\ req[r1].file.size = 2^30 + 1
       /\ req[r1].file.type = "video/mp4" /\ req[r1].status = "BadRequest"
       /\ req[r2].file.size = 2^30 /\ Has(r2, "staged")

\* C6 as stated: the classification maps (1920,1080) to landscape, (1080,1920)
\* to portrait and (1000,1000) to other.
C6_SamplesAsStated ==
    label # "" =>
       /\ dims = <<1920, 1080>> => label = "landscape"
       /\ dims = <<1080, 1920>> => label = "portrait"
       /\ dims = <<1000, 1000>> => label = "other"

\* C6 amended: the classification maps (1920,1080) to landscape, (1080,1920) to
\* portrait and (1000,1000) to landscape, the truncated ratio of a square being 1.
C6_Samples ==
    label # "" =>
       /\ dims = <<1920, 1080>> => label = "landscape"
       /\ dims = <<1080, 1920>> => label = "portrait"
       /\ dims = <<1000, 1000>> => label = "landscape"

\* C6 witness: the square sample has been classified
C6_Witness == dims = <<1000, 1000>> /\ label = "landscape"

\* request r is aborting: it has ended with an error, or the call of its tool
\* has thrown and the await of the call has yet to throw in the handler, or it
\* is reading the error text of its failed remuxer in order to throw; it
\* invokes nothing more and never responds 200
Aborting(r) ==
    /\ req[r].pc \in {"done", "probeThrown", "remuxStderr", "remuxThrown"}
    /\ req[r].pc = "done" => req[r].status = "Error"
    /\ req[r].status # "200"

\* C7: once the prober has failed the remuxer is never invoked and no remuxed
\* file appears; once the prober or the remuxer has failed no upload is attempted
\* and no object stored; once the prober, the remuxer or the upload has failed
\* the request ends with an error and not with 200, the record is not updated
\* and no stage runs again: every stage is invoked at most once.
C7_FailureAborts ==
    \A r \in Reqs :
       /\ ProbeFailed(r) => ~Has(r, "remux") /\ ~Exists(RemuxedPath(r))
       /\ HasAny(r, {"probeExit1", "probeStderr", "probeNoStream", "remuxExit1"}) =>
             ~Has(r, "upload") /\ ObjectsOf(r) = {}
       /\ HasAny(r, {"probeExit1", "probeStderr", "probeNoStream", "remuxExit1",
                     "uploadRejected"}) =>
             /\ ~Has(r, "updated") /\ RecordsOf(r) = {}
             /\ Aborting(r)
       /\ Count(r, "probe") <= 1 /\ Count(r, "remux") <= 1 /\ Count(r, "upload") <= 1

\* C7 witness: the prober has failed in one request and the remuxer in another
C7_Witness ==
    \E r1, r2 \in Reqs :
       /\ ProbeFailed(r1) /\ req[r1].status = "Error"
       /\ Has(r2, "remuxExit1") /\ req[r2].status = "Error"

\* C8: a request that has persisted its record and ended has responded 200 with
\* the updated record whatever the deletions did, and when the deletion of the
\* staged file failed the deletion of the remuxed file was still attempted.
C8_DeletionBestEffort ==
    \A r \in Reqs :
       (req[r].pc = "done" /\ Has(r, "updated")) =>
          /\ req[r].status = "200"
          /\ Has(r, "delete1Failed") => Has(r, "delete2")

\* C9: the temporary paths of two requests are four different paths; every file
\* on disk lies at a path of the request that wrote it and holds what that
\* request staged; a file stays where its request put it until that request
\* deletes it; and what a request classified and stored is the upload it staged.
C9_NoSharedTempPaths ==
    /\ \A r1, r2 \in Reqs :
          (r1 < r2 /\ Named(r1) /\ Named(r2)) =>
             LET staged1 == TempPath(req[r1].filename)
                 staged2 == TempPath(req[r2].filename)
                 remuxed1 == ProcessedPath(staged1)
                 remuxed2 == ProcessedPath(staged2)
             IN  /\ staged1 # staged2 /\ staged1 # remuxed2
                 /\ remuxed1 # staged2 /\ remuxed1 # remuxed2
    /\ \A p \in DOMAIN fs :
          /\ p \in {StagedPath(fs[p].by), RemuxedPath(fs[p].by)}
          /\ fs[p].streams = req[fs[p].by].file.streams
    /\ \A r \in Reqs :
          /\ (Has(r, "staged") /\ ~Has(r, "deleted1")) =>
                Exists(StagedPath(r)) /\ fs[StagedPath(r)].by = r
          /\ (Has(r, "remuxed") /\ ~Has(r, "deleted2")) =>
                Exists(RemuxedPath(r)) /\ fs[RemuxedPath(r)].by = r
          /\ Has(r, "probed") =>
                req[r].returned = getVideoAspectRatio(req[r].file.streams)
          /\ Has(r, "remux") =>
                req[r].aspectRatio = getVideoAspectRatio(req[r].file.streams)
    /\ \A k \in DOMAIN bucket :
          \E r \in Reqs :
             /\ k = <<req[r].aspectRatio, "/", req[r].filename>>
             /\ bucket[k].body.by = r
             /\ bucket[k].body.streams = req[r].file.streams

\* C9 witness: two requests hold their staged and remuxed files at the same time
C9_Witness ==
    \E r1, r2 \in Reqs :
       /\ r1 # r2
       /\ Exists(StagedPath(r1)) /\ Exists(RemuxedPath(r1))
       /\ Exists(StagedPath(r2)) /\ Exists(RemuxedPath(r2))

\* C10: the store holds the same records throughout; a record that no request
\* addressing it has updated is as it was at the start; and an updated record
\* differs from what it was in its URL alone.
C10_OnlyOwnRecordUrl ==
    /\ DOMAIN db = DOMAIN InitialDb
    /\ \A v \in DOMAIN db :
          /\ (\A r \in Reqs : req[r].videoId = v => ~Has(r, "updated")) =>
                db[v] = InitialDb[v]
          /\ [db[v] EXCEPT !.videoURL = NullURL] = InitialDb[v]

\* C10 witness: one record has been updated and the other is as it was
C10_Witness ==
    \E v1, v2 \in DOMAIN db :
       /\ db[v1].videoURL # NullURL
       /\ \E r \in Reqs : req[r].videoId = v2 /\ req[r].pc = "done"
       /\ db[v2] = InitialDb[v2]

\* two requests have run the pipeline through the upload on the same record
\* with the same upload
SameInputTwice(r1, r2) ==
    /\ r1 # r2
    /\ Has(r1, "uploaded") /\ Has(r2, "uploaded")
    /\ req[r1].videoId = req[r2].videoId
    /\ req[r1].userID = req[r2].userID
    /\ req[r1].file = req[r2].file

\* C11: two successful runs on the same input have stored two objects under
\* two different keys of two different filenames and of the same classification,
\* and each object is still the one its own run stored.
C11_TwoRunsTwoObjects ==
    \A r1, r2 \in Reqs :
       SameInputTwice(r1, r2) =>
          LET k1 == ObjectKey(req[r1].aspectRatio, req[r1].filename)
              k2 == ObjectKey(req[r2].aspectRatio, req[r2].filename)
          IN  /\ req[r1].filename # req[r2].filename
              /\ k1 # k2
              /\ k1[1] = k2[1]
              /\ k1 \in DOMAIN bucket /\ k2 \in DOMAIN bucket
              /\ bucket[k1].body.by = r1 /\ bucket[k2].body.by = r2
              /\ Cardinality(DOMAIN bucket) >= 2

\* C11 witness: the same landscape upload has been published twice on one record
C11_Witness ==
    \E r1, r2 \in Reqs :
       /\ SameInputTwice(r1, r2)
       /\ req[r1].file.streams = Landscape1080
       /\ Has(r1, "respond200") /\ Has(r2, "respond200")

\* C12: for a positive width w and height h the classification is landscape
\* exactly when h <= w < 2h (the truncated ratio is 1), portrait exactly when
\* w < h (it is 0) and other exactly when w >= 2h (it is 2 or more). The two
\* tests exclude each other, so the order in which lines 105 and 107 apply them
\* does not show in the result.
C12_TruncatedRatio ==
    (label # "" /\ dims[1] > 0 /\ dims[2] > 0) =>
       /\ label = "landscape" <=> (dims[2] <= dims[1] /\ dims[1] < 2 * dims[2])
       /\ label = "portrait" <=> dims[1] < dims[2]
       /\ label = "other" <=> dims[1] >= 2 * dims[2]
       /\ label \in {"landscape", "portrait", "other"}

\* C12 witness: a width of twice the height has been classified other
C12_Witness == dims[2] > 0 /\ dims[1] = 2 * dims[2] /\ label = "other"

\* C13: a request whose prober exited non-zero, or exited 0 with text on its
\* error stream (whatever it printed on its output), is failed: the prober
\* step has thrown, the request ends with an error as soon as the await of the
\* step throws and with nothing else, it never holds a classification and
\* never invokes the remuxer; a request holds a classification or has invoked
\* the remuxer only if its prober exited 0 with an empty error stream.
C13_ProberStrict ==
    \A r \in Reqs :
       /\ (Has(r, "probeExit1") \/ Has(r, "probeStderr")) =>
             /\ req[r].pc \in {"probeThrown", "done"}
             /\ req[r].pc = "done" => req[r].status = "Error"
             /\ req[r].status \in {"", "Error"}
             /\ req[r].returned = "" /\ req[r].aspectRatio = ""
             /\ ~Has(r, "remux") /\ ~Exists(RemuxedPath(r))
       /\ (req[r].aspectRatio # "" \/ Has(r, "remux")) => Has(r, "probed")

\* C13 witness: a prober that exited 0 on an upload with a 1920x1080 stream was
\* refused for the text on its error stream, and another was refused for its
\* exit status
C13_Witness ==
    \E r1, r2 \in Reqs :
       /\ Has(r1, "probeStderr") /\ req[r1].file.streams = Landscape1080
       /\ req[r1].failedAt = "probeStderr"
       /\ Has(r2, "probeExit1") /\ req[r2].failedAt = "probeExit"

\* the history of a request that responds 200
FullRun ==
    <<"authorized", "stage", "staged", "probe", "probed", "remux", "remuxed",
      "upload", "uploaded", "updated", "delete1", "deleted1", "delete2",
      "deleted2", "respond200">>

\* what an awaited operation that failed leaves in the history
Failures ==
    {"formRejected", "stageFailed", "probeExit1", "probeStderr", "probeNoStream", "remuxExit1",
     "uploadRejected", "updateFailed", "delete1Failed", "delete2Failed"}

IsPrefix(s, t) == Len(s) <= Len(t) /\ \A i \in 1..Len(s) : s[i] = t[i]

\* the history of request r follows the one order of stages, and stops at the
\* first failure
InOrder(r) ==
    LET log == req[r].log
        n == Len(log)
    IN  \/ IsPrefix(log, FullRun)
        \/ /\ n >= 1
           /\ IsPrefix(SubSeq(log, 1, n - 1), FullRun)
           /\ log[n] \in Failures
           /\ Aborting(r)

\* C14: the history of every request is a beginning of the one sequence
\* authorized, staged, probed, remuxed, uploaded, updated, staged file deleted,
\* remuxed file deleted, 200, possibly ended by the one failure that stopped it;
\* the prober, the remuxer and the upload are each invoked at most once; a
\* request responds 200 exactly on the full sequence; and a history only ever
\* grows at its end.
C14_LinearOrder ==
    /\ [](\A r \in Reqs :
            /\ InOrder(r)
            /\ Count(r, "probe") <= 1 /\ Count(r, "remux") <= 1
            /\ Count(r, "upload") <= 1
            /\ req[r].status = "200" <=> req[r].log = FullRun)
    /\ [][\A r \in Reqs : IsPrefix(req[r].log, req'[r].log)]_vars

\* C14 witness: one request has responded 200 and another was stopped by its remuxer
C14_Witness ==
    \E r1, r2 \in Reqs :
       /\ req[r1].status = "200" /\ req[r1].log = FullRun
       /\ Has(r2, "remuxExit1") /\ req[r2].pc = "done"

\* the URL under which the handler publishes a stored key
PublicURL(key) == <<"https://", Distribution, "/", key[1], "/", key[3]>>

\* request r updates its record in this step
Updates(r) == ~Has(r, "updated") /\ Has(r, "updated")'

\* C15: under every interleaving a non-null URL of a record is the URL of a key
\* under which a request on that record has stored its object, with the
\* classification and the filename of that one request; a record changes only
\* in the step in which a request on it updates it, and then holds the URL of
\* that request: the URL is always the one of the last request that updated it.
C15_LastWriterWins ==
    /\ [](\A v \in VideoIds :
            db[v].videoURL # NullURL =>
               \E r \in Reqs, k \in DOMAIN bucket :
                  /\ req[r].videoId = v
                  /\ Has(r, "uploaded") /\ Has(r, "updated")
                  /\ k = <<req[r].aspectRatio, "/", req[r].filename>>
                  /\ bucket[k].body.by = r
                  /\ db[v].videoURL = PublicURL(k))
    /\ [][\A v \in VideoIds :
            db'[v] # db[v] =>
               \E r \in Reqs :
                  /\ Updates(r)
                  /\ req[r].videoId = v
                  /\ db'[v].videoURL = <<"https://", Distribution, "/",
                                         req[r].aspectRatio, "/", req[r].filename>>]_vars
    /\ [][\A r \in Reqs :
            Updates(r) =>
               db'[req[r].videoId].videoURL =
                  <<"https://", Distribution, "/",
                    req[r].aspectRatio, "/", req[r].filename>>]_vars

\* C15 witness: two requests of different classifications have both updated the
\* same record, which holds the URL of the second
C15_Witness ==
    \E r1, r2 \in Reqs :
       /\ r1 # r2
       /\ req[r1].videoId = req[r2].videoId
       /\ Has(r1, "updated") /\ Has(r2, "updated")
       /\ req[r1].aspectRatio = "landscape" /\ req[r2].aspectRatio = "portrait"
       /\ db[req[r1].videoId].videoURL =
             <<"https://", Distribution, "/", "portrait", "/", req[r2].filename>>

\* C16: every call of a tool ends, under fairness: the handler's wait for the
\* exit of the tool, and its reading of the piped streams after it, never block
\* each other, however much the tool writes to either stream.
C16_ToolCallEnds == <>(proc.handler = "ended")

\* C16 witness: a call has ended whose tool wrote more to its output stream and
\* to its error stream than a pipe holds
C16_Witness ==
    /\ proc.handler = "ended" /\ proc.tool # "" /\ ~proc.running
    /\ proc.stdoutRead > PipeCap /\ proc.stderrRead > PipeCap

====
